---- MODULE Spec2Model ----
(***************************************************************************)
(* A model of the hooks of oseelabs/react-hooks (src/src/hooks.ts, the     *)
(* same code being repeated with its documentation in src/src/index.ts).   *)
(*                                                                         *)
(* Every hook is an independent state machine.  The state of a hook is the *)
(* state React keeps for it (useState cells, useRef cells, the closure of  *)
(* the effect that is currently installed) together with the part of the   *)
(* browser it talks to (timers, requests in flight, localStorage, media    *)
(* query lists).  Each hook has its own specification, in which the other  *)
(* hooks stay idle.                                                        *)
(*                                                                         *)
(* React's contract, as used below: a render whose dependency list changed *)
(* runs the cleanup of the previous effect and then the new effect; both   *)
(* are flushed with the commit, before any timer callback, promise         *)
(* continuation or event handler runs.                                     *)
(***************************************************************************)
EXTENDS Integers, Sequences, FiniteSets, TLC

VARIABLES
    \* ---- useDebounce (hooks.ts:47-57)
    value,           \* the `value` prop of the latest render
    delay,           \* the `delay` prop of the latest render
    debouncedValue,  \* useState cell, hooks.ts:48
    timers,          \* the browser's pending timeouts: [id, val, due]
    handler,         \* the timer id the installed effect's cleanup will clear
    timerSeq,        \* number of timers armed so far (ids are 1..timerSeq)
    dMounted,        \* the component instance is mounted
    now,             \* the clock, in units of time
    lastChange,      \* history: time of the latest change of `value`
    burst,           \* history: length of the current run of rapid updates
    published,       \* history: every run of a timer callback
    \* ---- useFetch (hooks.ts:59-82)
    url,             \* the `url` argument of the latest render
    data,            \* useState cell, hooks.ts:60
    loading,         \* useState cell, hooks.ts:61
    error,           \* useState cell, hooks.ts:62
    requests,        \* calls of fetchData in flight: [id, url, stage]
    reqSeq,          \* number of requests issued so far (ids are 1..reqSeq)
    fThrown,         \* a call of fetchData ended in a rejection nobody caught
    fSettled,        \* history: ids of the requests that have settled
    fLast,           \* history: the request that settled most recently
    \* ---- useLocalStorage (hooks.ts:84-105)
    localStorage,    \* window.localStorage: key -> stored text, or NoItem
    bindings,        \* per component instance: [mounted, key, storedValue]
    sThrown,         \* the latest call let an exception reach its caller
    sLogged,         \* the latest call reported a failure with console.error
    sLast,           \* history: the latest call [op, inst, val, env]
    \* ---- useMediaQuery (hooks.ts:107-122)
    query,           \* the `query` argument of the latest render
    matches,         \* useState cell, hooks.ts:108
    mediaEnv,        \* the environment: query -> whether it matches now
    listeners,       \* registered 'change' listeners: [query, id]
    mListener,       \* the listener the installed effect's cleanup removes
    mPhase,          \* "unmounted", "rendered" (effect pending) or "idle"
    mEffects,        \* number of effects run so far (listener ids)
    mReturned,       \* the boolean the latest render returned
    mFirst,           \* history: the first render [rendered, returned, matched]
    mLast,            \* history: the latest change event [query, delivered, effect]
    \* ---- usePrevious (hooks.ts:124-132)
    pValue,          \* the `value` argument of the latest render
    ref,             \* ref.current, hooks.ts:125
    pPhase,          \* "unmounted", "rendered" (effect pending) or "idle"
    pReturned,       \* what the latest render returned
    pCycle,          \* number of renders (cycles) so far
    pBefore,          \* history: the `value` argument of the cycle before
    \* ---- useClickOutside (hooks.ts:29-45)
    cHandler,        \* the `handler` argument of the latest render
    cRef,            \* ref.current: the attached element, or NullRef
    docListeners,    \* 'click' listeners registered on document: [id, handler]
    cListener,       \* the listener the installed effect's cleanup removes
    cEffects,        \* number of effects run so far (listener ids)
    cMounted,        \* the component instance is mounted
    cLastClick,       \* history: the latest click and the calls it caused
    \* ---- useToggle (hooks.ts:134-140)
    tState,          \* useState cell, hooks.ts:135
    tQueue,          \* updates passed to setState and not yet rendered
    tSeen,           \* the `state` the latest render returned
    tInitial,        \* the initialState the instance was created with
    tMounted,        \* the component instance is mounted
    tCount,          \* history: number of toggle() calls so far
    tBatch           \* history: number of updates the latest render applied

dvars == <<value, delay, debouncedValue, timers, handler, timerSeq, dMounted,
           now, lastChange, burst, published>>

fvars == <<url, data, loading, error, requests, reqSeq, fThrown, fSettled, fLast>>

svars == <<localStorage, bindings, sThrown, sLogged, sLast>>

mvars == <<query, matches, mediaEnv, listeners, mListener, mPhase, mEffects,
           mReturned, mFirst, mLast>>

pvars == <<pValue, ref, pPhase, pReturned, pCycle, pBefore>>

cvars == <<cHandler, cRef, docListeners, cListener, cEffects, cMounted,
           cLastClick>>

tvars == <<tState, tQueue, tSeen, tInitial, tMounted, tCount,
           tBatch>>

vars == <<dvars, fvars, svars, mvars, pvars, cvars, tvars>>

\* what the actions of one hook leave alone: the state of the other hooks
dRest == <<fvars, svars, mvars, pvars, cvars, tvars>>
fRest == <<dvars, svars, mvars, pvars, cvars, tvars>>
sRest == <<dvars, fvars, mvars, pvars, cvars, tvars>>
mRest == <<dvars, fvars, svars, pvars, cvars, tvars>>
pRest == <<dvars, fvars, svars, mvars, cvars, tvars>>
cRest == <<dvars, fvars, svars, mvars, pvars, tvars>>
tRest == <<dvars, fvars, svars, mvars, pvars, cvars>>

----------------------------------------------------------------------------
(* Bounds *)
MaxTime == 4
MaxDelay == 2
MaxUpdates == 3
MaxRequests == 3
MaxEffects == 3
MaxCycles == 5
MaxToggles == 6

----------------------------------------------------------------------------
(* useDebounce *)

DValues == {"a", "b", "c"}
Delays == 0..MaxDelay
NoHandler == 0

\* a cleanup that clears nothing (the effect written without its return)
clearTimeoutNothing(ts, h) == ts

\* clearTimeout(handler), hooks.ts:53
clearTimeout(ts, h) == {t \in ts : t.id # h}

\* setTimeout(() => setDebouncedValue(value), delay), hooks.ts:51
setTimeout(ts, id, v, d, t) == ts \cup {[id |-> id, val |-> v, due |-> t + d]}

\* an effect that returns clearTimeout(handler) instead of a function calling
\* it: the timer is cleared as soon as it is armed
DebounceEffectClearsAtOnce(v, d) ==
    /\ timers' = clearTimeout(setTimeout(clearTimeout(timers, handler),
                                         timerSeq + 1, v, d, now), timerSeq + 1)
    /\ handler' = timerSeq + 1
    /\ timerSeq' = timerSeq + 1

\* the effect of hooks.ts:50-54 for the props (v, d): cleanup of the
\* previously installed effect, then the new effect
DebounceEffect(v, d) ==
    /\ timers' = setTimeout(clearTimeout(timers, handler), timerSeq + 1, v, d, now)
    /\ handler' = timerSeq + 1
    /\ timerSeq' = timerSeq + 1

\* the instance before it is mounted
DIdle ==
    /\ value = "a" /\ delay = 0 /\ debouncedValue = "a"
    /\ timers = {} /\ handler = NoHandler /\ timerSeq = 0
    /\ dMounted = FALSE /\ now = 0 /\ lastChange = 0 /\ burst = 0
    /\ published = <<>>

\* the instance after its first render and first effect, hooks.ts:48-54
DInit ==
    /\ value \in DValues /\ delay \in Delays
    /\ debouncedValue = value
    /\ timers = setTimeout({}, 1, value, delay, 0)
    /\ handler = 1 /\ timerSeq = 1
    /\ dMounted = TRUE /\ now = 0 /\ lastChange = 0 /\ burst = 1
    /\ published = <<>>

\* a render with a new `value`: the dependency list [value, delay] changed
DSetValue(v) ==
    /\ dMounted /\ v # value /\ timerSeq < MaxUpdates
    /\ value' = v
    /\ DebounceEffect(v, delay)
    /\ lastChange' = now
    /\ burst' = IF now - lastChange < delay THEN burst + 1 ELSE 1
    /\ UNCHANGED <<delay, debouncedValue, dMounted, now, published, dRest>>

\* a render with a new `delay`
DSetDelay(d) ==
    /\ dMounted /\ d # delay /\ timerSeq < MaxUpdates
    /\ delay' = d
    /\ DebounceEffect(value, d)
    /\ UNCHANGED <<value, debouncedValue, dMounted, now, lastChange, burst,
                   published, dRest>>

\* the callback of a due timer runs: setDebouncedValue(value) of its closure
DFire(t) ==
    /\ t \in timers /\ now >= t.due
    /\ debouncedValue' = t.val
    /\ timers' = timers \ {t}
    /\ published' = Append(published,
           [val |-> t.val, at |-> now, input |-> value, changed |-> lastChange,
            delay |-> delay, burst |-> burst, mounted |-> dMounted, id |-> t.id,
            armed |-> handler, prev |-> debouncedValue])
    /\ UNCHANGED <<value, delay, handler, timerSeq, dMounted, now, lastChange,
                   burst, dRest>>

\* teardown: the cleanup of the installed effect, hooks.ts:53
DUnmount ==
    /\ dMounted
    /\ dMounted' = FALSE
    /\ timers' = clearTimeout(timers, handler)
    /\ UNCHANGED <<value, delay, debouncedValue, handler, timerSeq, now,
                   lastChange, burst, published, dRest>>

\* time passes; a timer may run later than it is due, never earlier
Tick ==
    /\ now < MaxTime
    /\ now' = now + 1
    /\ UNCHANGED <<value, delay, debouncedValue, timers, handler, timerSeq,
                   dMounted, lastChange, burst, published, dRest>>

DNext ==
    \/ \E v \in DValues : DSetValue(v)
    \/ \E d \in Delays : DSetDelay(d)
    \/ \E t \in timers : DFire(t)
    \/ DUnmount
    \/ Tick

----------------------------------------------------------------------------
(* useFetch *)

Urls == {"u1", "u2", "u3"}
Bodies == {"A", "B"}          \* the (non-null) JSON values a response may hold
Null == [kind |-> "null"]     \* JavaScript's null

\* the value response.json() resolves with, for request r
Parsed(r, b) == [kind |-> "json", body |-> b, url |-> r.url, req |-> r.id]
\* the rejection of fetch(url) (network error) or of response.json() (parse error)
Failure(r, k) == [kind |-> k, url |-> r.url, req |-> r.id]

FState == [data |-> data, loading |-> loading, error |-> error, thrown |-> fThrown]

\* fetchData up to its first await: setLoading(true), hooks.ts:66
fetchDataStart(st) == [st EXCEPT !.loading = TRUE]

\* a handler that drops the response of a request the URL has moved away from
fetchDataSettleCurrentOnly(st, cur, r, out) ==
    IF r.url # cur THEN st
    ELSE IF out.ok THEN [st EXCEPT !.data = out.val, !.loading = FALSE]
    ELSE [st EXCEPT !.error = out.val, !.loading = FALSE]

\* a catch block that also resets data
fetchDataSettleResetData(st, cur, r, out) ==
    IF out.ok THEN [st EXCEPT !.data = out.val, !.loading = FALSE]
    ELSE [st EXCEPT !.error = out.val, !.data = Null, !.loading = FALSE]

\* fetchData from the await that settles it: setData(result) on success,
\* setError(err) in the catch block, setLoading(false) in the finally block,
\* hooks.ts:67-75.  `cur` is the URL of the latest render, which the code
\* does not consult.
fetchDataSettle(st, cur, r, out) ==
    IF out.ok THEN [st EXCEPT !.data = out.val, !.loading = FALSE]
    ELSE [st EXCEPT !.error = out.val, !.loading = FALSE]

FApply(st) ==
    /\ data' = st.data /\ loading' = st.loading
    /\ error' = st.error /\ fThrown' = st.thrown

NoneSettled == [id |-> 0, url |-> "", ok |-> TRUE, val |-> Null, before |-> Null,
                wasLoading |-> TRUE]

FIdle ==
    /\ url = "u1" /\ data = Null /\ loading = TRUE /\ error = Null
    /\ requests = {} /\ reqSeq = 0 /\ fThrown = FALSE
    /\ fSettled = {} /\ fLast = NoneSettled

\* the instance after its first render and first effect: the three cells
\* hold their initial values (hooks.ts:60-62), fetchData has been called
\* and is suspended at fetch(url)
FInit ==
    /\ url \in Urls
    /\ data = Null /\ error = Null
    /\ loading = fetchDataStart([data |-> Null, loading |-> TRUE, error |-> Null,
                                 thrown |-> FALSE]).loading
    /\ requests = {[id |-> 1, url |-> url, stage |-> "fetch"]}
    /\ reqSeq = 1 /\ fThrown = FALSE
    /\ fSettled = {} /\ fLast = NoneSettled

\* a render with a new URL: the effect of hooks.ts:64-79 runs again; it has
\* no cleanup, so requests in flight stay in flight
FSetUrl(u) ==
    /\ u # url /\ reqSeq < MaxRequests
    /\ url' = u
    /\ FApply(fetchDataStart(FState))
    /\ requests' = requests \cup {[id |-> reqSeq + 1, url |-> u, stage |-> "fetch"]}
    /\ reqSeq' = reqSeq + 1
    /\ UNCHANGED <<fSettled, fLast, fRest>>

\* fetch(url) resolves with a response; fetchData goes on to response.json()
FFetchResolved(r) ==
    /\ r \in requests /\ r.stage = "fetch"
    /\ requests' = (requests \ {r}) \cup {[r EXCEPT !.stage = "json"]}
    /\ UNCHANGED <<url, data, loading, error, reqSeq, fThrown, fSettled, fLast,
                   fRest>>

FSettle(r, out) ==
    /\ FApply(fetchDataSettle(FState, url, r, out))
    /\ requests' = requests \ {r}
    /\ fSettled' = fSettled \cup {r.id}
    /\ fLast' = [id |-> r.id, url |-> r.url, ok |-> out.ok, val |-> out.val,
                 before |-> data, wasLoading |-> loading]
    /\ UNCHANGED <<url, reqSeq, fRest>>

\* fetch(url) rejects
FFetchRejected(r) ==
    /\ r \in requests /\ r.stage = "fetch"
    /\ FSettle(r, [ok |-> FALSE, val |-> Failure(r, "TypeError")])

\* response.json() resolves with the parsed body
FJsonResolved(r, b) ==
    /\ r \in requests /\ r.stage = "json"
    /\ FSettle(r, [ok |-> TRUE, val |-> Parsed(r, b)])

\* response.json() rejects: the body is not JSON
FJsonRejected(r) ==
    /\ r \in requests /\ r.stage = "json"
    /\ FSettle(r, [ok |-> FALSE, val |-> Failure(r, "SyntaxError")])

FNext ==
    \/ \E u \in Urls : FSetUrl(u)
    \/ \E r \in requests : FFetchResolved(r)
    \/ \E r \in requests : FFetchRejected(r)
    \/ \E r \in requests, b \in Bodies : FJsonResolved(r, b)
    \/ \E r \in requests : FJsonRejected(r)

----------------------------------------------------------------------------
(* useLocalStorage *)

Keys == {"k1", "k2"}
Instances == {1, 2}

\* JavaScript values a caller may pass, written as their source text
JSValues == {"undefined", "NaN", "0", "'a'", "1n"}

\* getItem's answer for a key that has no entry (null)
NoItem == "(no item)"
\* texts the store may hold: what JSON.stringify produces for the values
\* above, and entries left there by other code
ItemTexts == {"undefined", "null", "0", "\"a\"", "", "{"}

\* the browser at the time of a call: the store works, is full (setItem throws
\* QuotaExceededError), or may not be accessed (window.localStorage throws
\* SecurityError)
Envs == {"ok", "full", "denied"}

\* JSON.stringify(value), hooks.ts:98: a text, the value undefined (for
\* undefined), or a TypeError (for a BigInt); NaN is written as null
JSONstringify(v) ==
    CASE v = "1n"        -> [threw |-> TRUE,  isText |-> FALSE, text |-> ""]
      [] v = "undefined" -> [threw |-> FALSE, isText |-> FALSE, text |-> ""]
      [] v = "NaN"       -> [threw |-> FALSE, isText |-> TRUE,  text |-> "null"]
      [] v = "0"         -> [threw |-> FALSE, isText |-> TRUE,  text |-> "0"]
      [] v = "'a'"       -> [threw |-> FALSE, isText |-> TRUE,  text |-> "\"a\""]

\* JSON.parse(item), hooks.ts:88: a value, or a SyntaxError
JSONparse(t) ==
    CASE t = "null"  -> [threw |-> FALSE, val |-> "null"]
      [] t = "0"     -> [threw |-> FALSE, val |-> "0"]
      [] t = "\"a\"" -> [threw |-> FALSE, val |-> "'a'"]
      [] OTHER       -> [threw |-> TRUE,  val |-> "undefined"]

\* window.localStorage.getItem(key), hooks.ts:87
getItem(store, k, env) ==
    IF env = "denied" THEN [threw |-> TRUE, item |-> NoItem]
    ELSE [threw |-> FALSE, item |-> store[k]]

\* window.localStorage.setItem(key, x), hooks.ts:98: x is converted to a
\* string (undefined becomes the text undefined); nothing is written when
\* the call throws
setItem(store, k, s, env) ==
    IF env # "ok" THEN [threw |-> TRUE, store |-> store]
    ELSE [threw |-> FALSE,
          store |-> [store EXCEPT ![k] = IF s.isText THEN s.text ELSE "undefined"]]

\* the truthiness test `item ? ... : ...` of hooks.ts:88
Truthy(item) == item # NoItem /\ item # ""

\* an initializer that falls back whenever the parsed value is falsy
useStateInitFalsyFallback(store, key, initialValue, env) ==
    LET g == getItem(store, key, env)
        p == JSONparse(g.item)
    IN  IF g.threw THEN [value |-> initialValue, logged |-> TRUE, thrown |-> FALSE]
        ELSE IF ~Truthy(g.item) THEN [value |-> initialValue, logged |-> FALSE, thrown |-> FALSE]
        ELSE IF p.threw THEN [value |-> initialValue, logged |-> TRUE, thrown |-> FALSE]
        ELSE IF p.val \in {"null", "0"}
             THEN [value |-> initialValue, logged |-> FALSE, thrown |-> FALSE]
        ELSE [value |-> p.val, logged |-> FALSE, thrown |-> FALSE]

\* the initializer of the useState cell, hooks.ts:85-93
useStateInit(store, key, initialValue, env) ==
    LET g == getItem(store, key, env)
        p == JSONparse(g.item)
    IN  IF g.threw THEN [value |-> initialValue, logged |-> TRUE, thrown |-> FALSE]
        ELSE IF ~Truthy(g.item) THEN [value |-> initialValue, logged |-> FALSE, thrown |-> FALSE]
        ELSE IF p.threw THEN [value |-> initialValue, logged |-> TRUE, thrown |-> FALSE]
        ELSE [value |-> p.val, logged |-> FALSE, thrown |-> FALSE]

\* a setValue that updates the cell only after the write went through
setValuePersistFirst(cur, store, key, v, env) ==
    LET s == JSONstringify(v)
        w == setItem(store, key, s, env)
    IN  IF env = "denied" \/ s.threw \/ w.threw
        THEN [storedValue |-> cur, store |-> store, logged |-> TRUE, thrown |-> FALSE]
        ELSE [storedValue |-> v, store |-> w.store, logged |-> FALSE, thrown |-> FALSE]

\* a setValue that writes String(value) instead of its JSON text
setValueNoJson(cur, store, key, v, env) ==
    LET raw == CASE v = "'a'" -> "a" [] v = "1n" -> "1" [] OTHER -> v
        w == setItem(store, key, [threw |-> FALSE, isText |-> TRUE, text |-> raw], env)
    IN  IF w.threw
        THEN [storedValue |-> v, store |-> store, logged |-> TRUE, thrown |-> FALSE]
        ELSE [storedValue |-> v, store |-> w.store, logged |-> FALSE, thrown |-> FALSE]

\* setValue, hooks.ts:95-102: setStoredValue(value) first, then the write;
\* whatever the write throws is caught and logged.  `cur` is the cell's value
\* before the call.
setValue(cur, store, key, v, env) ==
    LET s == JSONstringify(v)
        w == setItem(store, key, s, env)
    IN  IF env = "denied" \/ s.threw \/ w.threw
        THEN [storedValue |-> v, store |-> store, logged |-> TRUE, thrown |-> FALSE]
        ELSE [storedValue |-> v, store |-> w.store, logged |-> FALSE, thrown |-> FALSE]

Unmounted == [mounted |-> FALSE, key |-> "", storedValue |-> "undefined"]
NoCall == [op |-> "none", inst |-> 0, val |-> "undefined", env |-> "ok"]

SIdle ==
    /\ localStorage = [k \in Keys |-> NoItem]
    /\ bindings = [i \in Instances |-> Unmounted]
    /\ sThrown = FALSE /\ sLogged = FALSE /\ sLast = NoCall

\* no instance is mounted yet; the store holds whatever earlier sessions and
\* other code left in it
SInit ==
    /\ localStorage \in [Keys -> {NoItem, "", "{"}]
    /\ bindings = [i \in Instances |-> Unmounted]
    /\ sThrown = FALSE /\ sLogged = FALSE /\ sLast = NoCall

\* the first render of an instance: the useState initializer runs
SMount(i, k, initialValue, env) ==
    /\ ~bindings[i].mounted /\ env # "full"
    /\ LET r == useStateInit(localStorage, k, initialValue, env) IN
        /\ bindings' = [bindings EXCEPT ![i] =
               [mounted |-> TRUE, key |-> k, storedValue |-> r.value]]
        /\ sThrown' = r.thrown /\ sLogged' = r.logged
    /\ sLast' = [op |-> "mount", inst |-> i, val |-> initialValue, env |-> env]
    /\ UNCHANGED <<localStorage, sRest>>

\* a setValue whose new value reaches every binding of the same key
SSetValueShared(i, v, env) ==
    /\ bindings[i].mounted
    /\ LET r == setValue(bindings[i].storedValue, localStorage, bindings[i].key, v, env) IN
        /\ bindings' = [j \in Instances |->
               IF bindings[j].mounted /\ bindings[j].key = bindings[i].key
               THEN [bindings[j] EXCEPT !.storedValue = r.storedValue]
               ELSE bindings[j]]
        /\ localStorage' = r.store
        /\ sThrown' = r.thrown /\ sLogged' = r.logged
    /\ sLast' = [op |-> "set", inst |-> i, val |-> v, env |-> env]
    /\ UNCHANGED sRest

\* a call of the setValue an instance returned; the cell it sets is the
\* calling instance's own
SSetValue(i, v, env) ==
    /\ bindings[i].mounted
    /\ LET r == setValue(bindings[i].storedValue, localStorage, bindings[i].key, v, env) IN
        /\ bindings' = [bindings EXCEPT ![i].storedValue = r.storedValue]
        /\ localStorage' = r.store
        /\ sThrown' = r.thrown /\ sLogged' = r.logged
    /\ sLast' = [op |-> "set", inst |-> i, val |-> v, env |-> env]
    /\ UNCHANGED sRest

\* the instance is torn down; its cell is gone, the store stays
SUnmount(i) ==
    /\ bindings[i].mounted
    /\ bindings' = [bindings EXCEPT ![i] = Unmounted]
    /\ sThrown' = FALSE /\ sLogged' = FALSE
    /\ sLast' = [op |-> "unmount", inst |-> i, val |-> "undefined", env |-> "ok"]
    /\ UNCHANGED <<localStorage, sRest>>

SNext ==
    \/ \E i \in Instances, k \in Keys, v \in JSValues, env \in Envs : SMount(i, k, v, env)
    \/ \E i \in Instances, v \in JSValues, env \in Envs : SSetValue(i, v, env)
    \/ \E i \in Instances : SUnmount(i)

----------------------------------------------------------------------------
(* useMediaQuery *)

Queries == {"q1", "q2", "q3"}
NoListener == [query |-> "", id |-> 0]
NoChange == [query |-> "", delivered |-> FALSE, effect |-> 0]

\* window.matchMedia(query).matches, hooks.ts:111-113
matchMedia(env, q) == env[q]

\* the initial value of the cell: useState<boolean>(false), hooks.ts:108
useStateMatches(env, q) == FALSE

\* a cleanup that leaves the listener registered
removeEventListenerNothing(ls, l) == ls

\* mediaQueryList.removeEventListener('change', updateMatch), hooks.ts:118
removeEventListener(ls, l) == ls \ {l}

\* mediaQueryList.addEventListener('change', updateMatch), hooks.ts:116
addEventListener(ls, l) == ls \cup {l}

MIdle ==
    /\ query = "q1" /\ matches = FALSE
    /\ mediaEnv = [q \in Queries |-> FALSE]
    /\ listeners = {} /\ mListener = NoListener
    /\ mPhase = "unmounted" /\ mEffects = 0 /\ mReturned = FALSE
    /\ mFirst = [rendered |-> FALSE, returned |-> FALSE, matched |-> FALSE]
    /\ mLast = NoChange

\* before the first render, in any environment
MInit ==
    /\ query = "q1" /\ matches = FALSE
    /\ mediaEnv \in [Queries -> BOOLEAN]
    /\ listeners = {} /\ mListener = NoListener
    /\ mPhase = "unmounted" /\ mEffects = 0 /\ mReturned = FALSE
    /\ mFirst = [rendered |-> FALSE, returned |-> FALSE, matched |-> FALSE]
    /\ mLast = NoChange

\* the first render (the first cycle): the cell is created and returned,
\* hooks.ts:108 and 121; the effect has not run yet
MMount(q) ==
    /\ mPhase = "unmounted" /\ mEffects = 0
    /\ query' = q
    /\ matches' = useStateMatches(mediaEnv, q)
    /\ mReturned' = matches'
    /\ mFirst' = [rendered |-> TRUE, returned |-> matches',
                  matched |-> matchMedia(mediaEnv, q)]
    /\ mPhase' = "rendered"
    /\ UNCHANGED <<mediaEnv, listeners, mListener, mEffects, mLast, mRest>>

\* the effect of hooks.ts:110-119 runs after a render whose query changed:
\* the cleanup of the previous effect, then matchMedia, updateMatch() and
\* addEventListener; the setMatches of updateMatch is followed by a render
MEffect ==
    /\ mPhase = "rendered"
    /\ LET l == [query |-> query, id |-> mEffects + 1] IN
        /\ listeners' = addEventListener(removeEventListener(listeners, mListener), l)
        /\ mListener' = l
    /\ matches' = matchMedia(mediaEnv, query)
    /\ mReturned' = matches'
    /\ mEffects' = mEffects + 1
    /\ mPhase' = "idle"
    /\ UNCHANGED <<query, mediaEnv, mFirst, mLast, mRest>>

\* the environment changes whether q matches and signals it: every listener
\* registered on a list of q runs updateMatch, hooks.ts:113
MChange(q) ==
    /\ mediaEnv' = [mediaEnv EXCEPT ![q] = ~mediaEnv[q]]
    /\ IF \E l \in listeners : l.query = q
       THEN /\ matches' = matchMedia(mediaEnv', q)
            /\ mReturned' = IF mPhase = "unmounted" THEN mReturned ELSE matches'
       ELSE UNCHANGED <<matches, mReturned>>
    /\ mLast' = [query |-> q, delivered |-> \E l \in listeners : l.query = q,
                 effect |-> mEffects]
    /\ UNCHANGED <<query, listeners, mListener, mPhase, mEffects, mFirst, mRest>>

\* a render with a new query: it returns the cell as it is, hooks.ts:121
MSetQuery(q) ==
    /\ mPhase = "idle" /\ q # query /\ mEffects < MaxEffects
    /\ query' = q
    /\ mReturned' = matches
    /\ mPhase' = "rendered"
    /\ UNCHANGED <<matches, mediaEnv, listeners, mListener, mEffects, mFirst, mLast, mRest>>

\* teardown: the cleanup of the installed effect, hooks.ts:118
MUnmount ==
    /\ mPhase = "idle"
    /\ listeners' = removeEventListener(listeners, mListener)
    /\ mListener' = NoListener
    /\ mPhase' = "unmounted"
    /\ UNCHANGED <<query, matches, mediaEnv, mEffects, mReturned, mFirst, mLast, mRest>>

MNext ==
    \/ \E q \in Queries : MMount(q)
    \/ MEffect
    \/ \E q \in Queries : MChange(q)
    \/ \E q \in Queries : MSetQuery(q)
    \/ MUnmount

----------------------------------------------------------------------------
(* usePrevious *)

PValues == {"a", "b", "c", "d"}
Undefined == "undefined"

\* the initial content of the cell: useRef<T>(value), hooks.ts:125
useRefInit(v) == v

\* an effect that leaves the cell alone
refEffectNothing(cur, v) == cur

\* the effect of hooks.ts:127-129, run after a render whose value changed:
\* ref.current = value
refEffect(cur, v) == v

PIdle ==
    /\ pValue = Undefined /\ ref = Undefined /\ pPhase = "unmounted"
    /\ pReturned = Undefined /\ pCycle = 0 /\ pBefore = Undefined

PInit == PIdle

\* the first render (the first cycle): the cell is created, hooks.ts:125,
\* and its content returned, hooks.ts:131; the effect has not run yet
PMount(v) ==
    /\ pPhase = "unmounted" /\ pCycle = 0
    /\ pValue' = v
    /\ ref' = useRefInit(v)
    /\ pReturned' = ref'
    /\ pCycle' = 1
    /\ pBefore' = Undefined
    /\ pPhase' = "rendered"
    /\ UNCHANGED pRest

\* the pending effect runs
PEffect ==
    /\ pPhase = "rendered"
    /\ ref' = refEffect(ref, pValue)
    /\ pPhase' = "idle"
    /\ UNCHANGED <<pValue, pReturned, pCycle, pBefore, pRest>>

\* a later render: it returns the cell as it is, hooks.ts:131; the effect is
\* scheduled when the dependency [value] changed
PRender(v) ==
    /\ pPhase = "idle" /\ pCycle < MaxCycles
    /\ pValue' = v
    /\ pReturned' = ref
    /\ pCycle' = pCycle + 1
    /\ pBefore' = pValue
    /\ pPhase' = IF v # pValue THEN "rendered" ELSE "idle"
    /\ UNCHANGED <<ref, pRest>>

\* teardown: the effect has no cleanup
PUnmount ==
    /\ pPhase = "idle"
    /\ pPhase' = "unmounted"
    /\ UNCHANGED <<pValue, ref, pReturned, pCycle, pBefore, pRest>>

PNext ==
    \/ \E v \in PValues : PMount(v)
    \/ PEffect
    \/ \E v \in PValues : PRender(v)
    \/ PUnmount

----------------------------------------------------------------------------
(* useClickOutside *)

Handlers == {"h1", "h2", "h3"}
NullRef == "null"
Element == "el"
\* event targets: the attached element, a descendant of it, a node outside it
Targets == {"el", "child", "outside"}
NoClickListener == [id |-> 0, handler |-> ""]
NoClick == [happened |-> FALSE, target |-> "", attached |-> FALSE, calls |-> 0,
            called |-> {}, mounted |-> FALSE, current |-> ""]

\* ref.current.contains(event.target), hooks.ts:34: a node contains itself
\* and its descendants
contains(el, target) == target \in {el, "child"}

\* a listener that does not look at the event target
handleClickOutsideAnyTarget(refCurrent, target) == refCurrent # NullRef

\* the condition under which handleClickOutside calls handler(), hooks.ts:34
handleClickOutside(refCurrent, target) ==
    refCurrent # NullRef /\ ~contains(refCurrent, target)

\* a cleanup that removes nothing
removeClickListenerNothing(ls, l) == ls

\* document.removeEventListener('click', handleClickOutside), hooks.ts:41
removeClickListener(ls, l) == ls \ {l}

\* document.addEventListener('click', handleClickOutside), hooks.ts:39
addClickListener(ls, l) == ls \cup {l}

\* the effect of hooks.ts:32-42 for the callback h: cleanup of the
\* previously installed effect, then the new effect
ClickEffect(h) ==
    LET l == [id |-> cEffects + 1, handler |-> h] IN
    /\ docListeners' = addClickListener(removeClickListener(docListeners, cListener), l)
    /\ cListener' = l
    /\ cEffects' = cEffects + 1

CIdle ==
    /\ cHandler = "h1" /\ cRef = NullRef /\ docListeners = {}
    /\ cListener = NoClickListener /\ cEffects = 0 /\ cMounted = FALSE
    /\ cLastClick = NoClick

CInit == CIdle

\* the first render and its commit: the handle is attached if the component
\* renders an element with it, and the effect runs
CMount(h, attach) ==
    /\ ~cMounted /\ cEffects = 0
    /\ cHandler' = h
    /\ cRef' = IF attach THEN Element ELSE NullRef
    /\ ClickEffect(h)
    /\ cMounted' = TRUE
    /\ UNCHANGED <<cLastClick, cRest>>

\* a render with a new callback identity: the dependency [handler] changed
CSetHandler(h) ==
    /\ cMounted /\ h # cHandler /\ cEffects < MaxEffects
    /\ cHandler' = h
    /\ ClickEffect(h)
    /\ UNCHANGED <<cRef, cMounted, cLastClick, cRest>>

\* a render that starts or stops rendering the element the handle is given to
CAttach(attach) ==
    /\ cMounted /\ (cRef # NullRef) # attach
    /\ cRef' = IF attach THEN Element ELSE NullRef
    /\ UNCHANGED <<cHandler, docListeners, cListener, cEffects, cMounted,
                   cLastClick, cRest>>

\* a click anywhere in the document: every registered listener runs
CClick(t) ==
    /\ LET hit == {l \in docListeners : handleClickOutside(cRef, t)} IN
        cLastClick' = [happened |-> TRUE, target |-> t, attached |-> cRef # NullRef,
                       calls |-> Cardinality(hit),
                       called |-> {l.handler : l \in hit},
                       mounted |-> cMounted, current |-> cHandler]
    /\ UNCHANGED <<cHandler, cRef, docListeners, cListener, cEffects, cMounted, cRest>>

\* teardown: the cleanup of the installed effect, hooks.ts:41; the element is
\* removed and the handle emptied
CUnmount ==
    /\ cMounted
    /\ docListeners' = removeClickListener(docListeners, cListener)
    /\ cListener' = NoClickListener
    /\ cRef' = NullRef
    /\ cMounted' = FALSE
    /\ UNCHANGED <<cHandler, cEffects, cLastClick, cRest>>

CNext ==
    \/ \E h \in Handlers, a \in BOOLEAN : CMount(h, a)
    \/ \E h \in Handlers : CSetHandler(h)
    \/ \E a \in BOOLEAN : CAttach(a)
    \/ \E t \in Targets : CClick(t)
    \/ CUnmount

----------------------------------------------------------------------------
(* useToggle *)

\* an update that captures the state of the render that created toggle
toggleSnapshot(seen) == [fn |-> FALSE, val |-> ~seen]

\* the update toggle() passes to setState, hooks.ts:137: the function
\* (prev) => !prev; `seen` is the state of the render that created toggle,
\* which the code does not use
toggle(seen) == [fn |-> TRUE, val |-> FALSE]

\* React applies one queued update to the latest state
applyUpdate(s, u) == IF u.fn THEN ~s ELSE u.val

\* React applies the queued updates in the order of the calls
RECURSIVE applyQueue(_, _)
applyQueue(s, q) == IF q = <<>> THEN s ELSE applyQueue(applyUpdate(s, Head(q)), Tail(q))

TIdle ==
    /\ tState = FALSE /\ tQueue = <<>> /\ tSeen = FALSE /\ tInitial = FALSE
    /\ tMounted = FALSE /\ tCount = 0 /\ tBatch = 0

TInit == TIdle

\* the first render: useState<boolean>(initialState), hooks.ts:135
TMount(initialState) ==
    /\ ~tMounted /\ tCount = 0
    /\ tState' = initialState /\ tSeen' = initialState /\ tInitial' = initialState
    /\ tMounted' = TRUE
    /\ UNCHANGED <<tQueue, tCount, tBatch, tRest>>

\* a call of toggle(); several may happen before the next render
TToggle ==
    /\ tMounted /\ tCount < MaxToggles
    /\ tQueue' = Append(tQueue, toggle(tSeen))
    /\ tCount' = tCount + 1
    /\ UNCHANGED <<tState, tSeen, tInitial, tMounted, tBatch, tRest>>

\* the render that follows: the queued updates are applied and the new state
\* returned, hooks.ts:139
TRender ==
    /\ tMounted /\ tQueue # <<>>
    /\ tState' = applyQueue(tState, tQueue)
    /\ tSeen' = tState'
    /\ tBatch' = Len(tQueue)
    /\ tQueue' = <<>>
    /\ UNCHANGED <<tInitial, tMounted, tCount, tRest>>

\* teardown: pending updates are dropped with the instance
TUnmount ==
    /\ tMounted
    /\ tMounted' = FALSE
    /\ tQueue' = <<>>
    /\ UNCHANGED <<tState, tSeen, tInitial, tCount, tBatch, tRest>>

TNext ==
    \/ \E b \in BOOLEAN : TMount(b)
    \/ TToggle
    \/ TRender
    \/ TUnmount

\* one hook mounted, the others idle
InitDebounce == DInit /\ FIdle /\ SIdle /\ MIdle /\ PIdle /\ CIdle /\ TIdle
InitFetch == FInit /\ DIdle /\ SIdle /\ MIdle /\ PIdle /\ CIdle /\ TIdle
InitStorage == SInit /\ DIdle /\ FIdle /\ MIdle /\ PIdle /\ CIdle /\ TIdle
InitMedia == MInit /\ DIdle /\ FIdle /\ SIdle /\ PIdle /\ CIdle /\ TIdle
InitPrevious == PInit /\ DIdle /\ FIdle /\ SIdle /\ MIdle /\ CIdle /\ TIdle
InitClickOutside == CInit /\ DIdle /\ FIdle /\ SIdle /\ MIdle /\ PIdle /\ TIdle
InitToggle == TInit /\ DIdle /\ FIdle /\ SIdle /\ MIdle /\ PIdle /\ CIdle

SpecDebounce == InitDebounce /\ [][DNext]_vars

\* the event loop: time passes, and a timer that is due is run.  The hook
\* never inspects the value, so the runs from one initial value stand for
\* the runs from any other (rename the values).
InitDebounceLive == InitDebounce /\ value = "a"

SpecDebounceLive ==
    /\ InitDebounceLive /\ [][DNext]_vars
    /\ WF_vars(Tick)
    /\ WF_vars(\E t \in timers : DFire(t))

SpecFetch == InitFetch /\ [][FNext]_vars

SpecStorage == InitStorage /\ [][SNext]_vars

SpecMedia == InitMedia /\ [][MNext]_vars

SpecPrevious == InitPrevious /\ [][PNext]_vars

SpecClickOutside == InitClickOutside /\ [][CNext]_vars

SpecToggle == InitToggle /\ [][TNext]_vars

----------------------------------------------------------------------------
\* C1: whenever a timer callback publishes a value, that value is the latest
\* input value (never the value of an earlier update of a burst), and at
\* least `delay` has passed since the latest change of the input.
C1_OnlyLastAfterDelay ==
    \A i \in 1..Len(published) :
        /\ published[i].val = published[i].input
        /\ published[i].at - published[i].changed >= published[i].delay

\* a burst of three updates, the later ones at different times and each
\* less than `delay` after the one before, whose last value replaced the
\* value shown before
C1_Witness ==
    \E i \in 1..Len(published) :
        /\ published[i].burst >= 3
        /\ published[i].changed >= 2
        /\ published[i].val = value
        /\ published[i].val # published[i].prev
        /\ debouncedValue = value

\* C2: every change of the URL sets loading to true and clears the stored
\* error before the new request is issued.
C2_UrlChangeClearsError ==
    [][url' # url => (loading' = TRUE /\ error' = Null)]_vars

\* C3: whenever loading is false and no request is pending, exactly one of
\* data and error is populated.
C3_ExactlyOneOfDataError ==
    (loading = FALSE /\ requests = {}) => ((data # Null) # (error # Null))

\* C4: when the request for the current URL resolves with a JSON body and no
\* other request is pending, the state is data = the parsed value,
\* loading = false, error = null, whatever earlier requests did.
C4_SuccessFinalState ==
    [][(fLast' # fLast /\ fLast'.ok /\ fLast'.url = url /\ requests' = {})
         => (data' = fLast'.val /\ loading' = FALSE /\ error' = Null)]_vars

\* C5: when a request fails (fetch rejects or the body does not parse), error
\* becomes that failure, loading becomes false, data keeps the value it had
\* before, and nothing is thrown.
C5_FailureKeepsData ==
    [][(fLast' # fLast /\ ~fLast'.ok)
         => (/\ error' = fLast'.val
             /\ error'.req = fLast'.id
             /\ loading' = FALSE
             /\ data' = data
             /\ fThrown' = FALSE)]_vars

\* a parse failure that arrived when data already held an earlier result
C5_Witness ==
    /\ ~fLast.ok /\ fLast.val.kind = "SyntaxError"
    /\ fLast.before # Null /\ data = fLast.before
    /\ error = fLast.val /\ loading = FALSE

\* C6: a change of the URL cancels nothing (every request issued is either
\* still in flight or has settled), the cell written by the request that
\* settled most recently (data on success, error on failure) holds that
\* request's result whether or not it was the request issued last, and once
\* nothing is pending loading is false.
C6_LastSettledWins ==
    /\ {r.id : r \in requests} \cup fSettled = 1..reqSeq
    /\ {r.id : r \in requests} \cap fSettled = {}
    /\ fLast.id # 0 => (IF fLast.ok THEN data = fLast.val ELSE error = fLast.val)
    /\ requests = {} => loading = FALSE

\* two overlapping requests, the one issued first settling last: data is the
\* response for a URL that is no longer the current one
C6_Witness ==
    /\ requests = {} /\ reqSeq >= 2
    /\ fLast.id < reqSeq /\ fLast.ok
    /\ fLast.url # url
    /\ data = fLast.val /\ data.url # url
    /\ loading = FALSE

\* the step is the construction of binding i
Constructs(i) == ~bindings[i].mounted /\ bindings'[i].mounted

\* the values JSON writes and reads back unchanged: null, finite numbers and
\* strings (undefined, NaN and BigInt are not among them)
JsonExact(v) == v \in {"null", "0", "'a'"}

\* C7 (as stated): for every value x, setValue(x) followed by the
\* construction of a fresh binding with the same key gives that binding the
\* initial value x (here even with a store that accepts the write and lets
\* the fresh binding read).
C7_RoundTripAnyValue ==
    [][\A i \in Instances :
         (/\ sLast.op = "set" /\ sLast.env = "ok"
          /\ Constructs(i) /\ bindings'[i].key = bindings[sLast.inst].key
          /\ sLast'.env = "ok")
            => bindings'[i].storedValue = sLast.val]_vars

\* C7 (amended): for every value x that JSON represents exactly, when the
\* store accepts the write and lets the fresh binding read, setValue(x)
\* followed by the construction of a fresh binding with the same key (and any
\* initialValue) gives that binding the initial value x.
C7_RoundTripJsonValue ==
    [][\A i \in Instances :
         (/\ sLast.op = "set" /\ JsonExact(sLast.val) /\ sLast.env = "ok"
          /\ Constructs(i) /\ bindings'[i].key = bindings[sLast.inst].key
          /\ sLast'.env = "ok")
            => bindings'[i].storedValue = sLast.val]_vars

\* a fresh binding that read back the falsy value 0 written by the other
\* binding, although its own initialValue was another value
C7_Witness ==
    /\ sLast.op = "mount" /\ sLast.env = "ok" /\ sLast.val = "'a'"
    /\ \E i, j \in Instances :
         /\ i # j /\ sLast.inst = j
         /\ bindings[i].mounted /\ bindings[j].mounted
         /\ bindings[i].key = bindings[j].key
         /\ bindings[i].storedValue = "0" /\ bindings[j].storedValue = "0"
         /\ localStorage[bindings[j].key] = "0"

\* the call setValue(v) under env cannot persist v
FailsToPersist(v, env) == env # "ok" \/ JSONstringify(v).threw

\* C8: when setValue(v) fails to persist (serialization throws or the store
\* rejects the write), nothing propagates to the caller, the in-memory value
\* is v all the same, and the store is left as it was.
C8_FailedWriteSwallowed ==
    [][(sLast' # sLast /\ sLast'.op = "set" /\ FailsToPersist(sLast'.val, sLast'.env))
         => (/\ sThrown' = FALSE
             /\ bindings'[sLast'.inst].storedValue = sLast'.val
             /\ localStorage' = localStorage)]_vars

\* a full store rejected the write of 'a' over an entry holding 0: the cell
\* holds 'a', the entry still holds 0
C8_Witness ==
    /\ sLast.op = "set" /\ sLast.env = "full" /\ sLast.val = "'a'"
    /\ bindings[sLast.inst].storedValue = "'a'"
    /\ localStorage[bindings[sLast.inst].key] = "0"
    /\ sLogged /\ ~sThrown

\* C9: the initial value of a binding is the deserialized entry when the
\* store can be read and holds an entry under the key that deserializes, and
\* initialValue in every other case (no entry, an entry that does not
\* deserialize, a store that cannot be read); no error reaches the caller.
C9_InitialValue ==
    [][\A i \in Instances :
         Constructs(i) =>
            LET item == localStorage[bindings'[i].key]
                readable == sLast'.env # "denied"
            IN  /\ sThrown' = FALSE
                /\ sLast'.inst = i
                /\ IF readable /\ item # NoItem /\ ~JSONparse(item).threw
                   THEN bindings'[i].storedValue = JSONparse(item).val
                   ELSE bindings'[i].storedValue = sLast'.val]_vars

\* both cases happened: one binding was constructed from the entry null
\* (not from its initialValue), the other fell back to its initialValue on
\* an entry that does not parse
C9_Witness ==
    \E i, j \in Instances :
        /\ i # j /\ bindings[i].mounted /\ bindings[j].mounted
        /\ localStorage[bindings[i].key] = "null" /\ bindings[i].storedValue = "null"
        /\ localStorage[bindings[j].key] = "undefined"
        /\ sLast = [op |-> "mount", inst |-> j, val |-> "'a'", env |-> "ok"]
        /\ bindings[j].storedValue = "'a'" /\ sLogged

\* C10: the boolean returned by the first render equals whether the query
\* matched the environment at that moment.
C10_FirstCycleMatchesEnv ==
    mFirst.rendered => mFirst.returned = mFirst.matched

\* C11: the first cycle of an instance returns undefined, whatever value is
\* passed in.
C11_FirstCycleUndefined ==
    pCycle = 1 => pReturned = Undefined

\* C12: every cycle after the first returns the value that was passed in on
\* the cycle immediately before it.
C12_ReturnsPrecedingValue ==
    pCycle >= 2 => pReturned = pBefore

\* the third of three cycles with different values: the cycle that receives c
\* returns b
C12_Witness ==
    /\ pCycle = 3 /\ pValue = "c" /\ pBefore = "b" /\ pReturned = "b"
    /\ pPhase = "idle" /\ ref = "c"

\* C13: a click invokes the callback exactly once if the handle is attached
\* and the target is not contained in the attached element, and not at all
\* if the target is inside the element or the handle is not attached.
C13_ClickOutsideOnce ==
    cLastClick.happened =>
        IF cLastClick.attached /\ cLastClick.target = "outside"
        THEN cLastClick.calls = 1 /\ cLastClick.called = {cLastClick.current}
        ELSE cLastClick.calls = 0

\* a click outside the attached element, after the callback identity had
\* changed, invoked the current callback once
C13_Witness ==
    /\ cLastClick.happened /\ cLastClick.attached /\ cLastClick.target = "outside"
    /\ cLastClick.calls = 1 /\ cLastClick.called = {cHandler}
    /\ cEffects >= 2 /\ cMounted

\* C18: while the instance is mounted exactly one click listener of it is
\* registered on the document, the one calling the current callback (a
\* change of the callback never leaves two); after teardown none is
\* registered, and a click after teardown invokes nothing.
C18_OneClickListener ==
    /\ cMounted => (docListeners = {cListener} /\ cListener.handler = cHandler)
    /\ ~cMounted => docListeners = {}
    /\ (cLastClick.happened /\ ~cLastClick.mounted) => cLastClick.calls = 0

\* after two changes of the callback and the teardown, a click outside found
\* no listener
C18_Witness ==
    /\ ~cMounted /\ cEffects >= 3 /\ docListeners = {}
    /\ cLastClick.happened /\ ~cLastClick.mounted
    /\ cLastClick.target = "outside" /\ cLastClick.calls = 0

\* C14: n calls of toggle() from state s, however they are spread over
\* cycles, leave the state at s when n is even and at NOT s when n is odd:
\* the state the pending updates lead to, and the state every render shows, is
\* the initial state inverted once per call made so far.
C14_ToggleParity ==
    tMounted =>
        (/\ applyQueue(tState, tQueue) = (tInitial # (tCount % 2 = 1))
         /\ tQueue = <<>> => (tSeen = tState /\ tState = (tInitial # (tCount % 2 = 1))))

\* two calls within one cycle, from the initial state false, gave false again
C14_Witness ==
    /\ tMounted /\ tInitial = FALSE /\ tCount = 2 /\ tBatch = 2
    /\ tQueue = <<>> /\ tState = FALSE

\* C15: a setValue on one binding sets that binding's own in-memory value
\* and, when the write goes through, the store's entry for its key; it leaves
\* the in-memory value of every other binding unchanged, also of a binding to
\* the same key.
C15_OtherBindingUnchanged ==
    [][(sLast' # sLast /\ sLast'.op = "set") =>
         LET i == sLast'.inst
             k == bindings[i].key
             t == JSONstringify(sLast'.val)
         IN  /\ bindings'[i].storedValue = sLast'.val
             /\ ~FailsToPersist(sLast'.val, sLast'.env) =>
                    localStorage'[k] = (IF t.isText THEN t.text ELSE "undefined")
             /\ \A j \in Instances \ {i} : bindings'[j] = bindings[j]]_vars

\* two bindings to the same key: one wrote 'a', the store holds it, and the
\* other still shows 0, which is not what the store holds
C15_Witness ==
    \E i, j \in Instances :
        /\ i # j /\ bindings[i].mounted /\ bindings[j].mounted
        /\ bindings[i].key = bindings[j].key
        /\ sLast = [op |-> "set", inst |-> i, val |-> "'a'", env |-> "ok"]
        /\ bindings[i].storedValue = "'a'"
        /\ localStorage[bindings[i].key] = "\"a\""
        /\ bindings[j].storedValue = "0"

\* C16: an instance has at most one pending timer, the one armed by the
\* installed effect of a mounted instance; every timer callback that ran
\* belonged to the timer armed at that moment (a cancelled timer never
\* publishes) and ran while the instance was mounted (nothing is published
\* after teardown).
C16_AtMostOneTimer ==
    /\ Cardinality(timers) <= 1
    /\ \A t \in timers : t.id = handler /\ dMounted
    /\ \A i \in 1..Len(published) :
          published[i].id = published[i].armed /\ published[i].mounted

\* two timers were armed, the first cancelled by an update and the second by
\* the teardown; their due times have passed and nothing was published
C16_Witness ==
    /\ ~dMounted /\ timers = {} /\ timerSeq >= 2
    /\ published = <<>>
    /\ now > lastChange + delay

\* the timer armed by the i-th effect has run
Fired(i) == \E k \in 1..Len(published) : published[k].id = i

\* no pending timer is due later than the horizon MaxTime of the clock
DueWithinHorizon == \A t \in timers : t.due <= MaxTime

\* C17: an update that is followed by no further change of value or delay
\* (and no teardown) is eventually published: from any state of a mounted
\* instance, either the instance is torn down, or a change re-arms a timer
\* beyond the horizon, or the timer of the installed effect eventually runs;
\* a timer that runs sets the output to the value it was armed with and is
\* gone afterwards, and no timer runs twice.
C17_EventuallyPublishedOnce ==
    /\ (dMounted /\ DueWithinHorizon)
          ~> (~dMounted \/ ~DueWithinHorizon \/ Fired(handler))
    /\ [](\A k, l \in 1..Len(published) :
             published[k].id = published[l].id => k = l)
    /\ [][\A t \in timers :
             (published' # published /\ published'[Len(published')].id = t.id)
                => (debouncedValue' = t.val /\ t \notin timers')]_vars

\* an update to a new value was published after `delay` of silence: one
\* publication, of that value, replacing the value shown before
C17_Witness ==
    /\ Len(published) = 1 /\ timerSeq = 2 /\ handler = 2
    /\ published[1].id = 2 /\ published[1].val = value
    /\ published[1].val # published[1].prev
    /\ published[1].delay > 0
    /\ debouncedValue = value /\ timers = {} /\ dMounted

\* C19: at most one change listener of the instance is ever registered;
\* once the effect has run there is exactly one, on the watcher of the
\* current query (the listener of the previous query is gone), and after
\* teardown there is none; while a listener is registered the cell holds the
\* match state of the query it is registered on, so that once the effect has
\* run, and after every change event, the returned flag equals the match
\* state of the current query.
C19_OneListenerFlagFollows ==
    /\ Cardinality(listeners) <= 1
    /\ mPhase = "idle" =>
          /\ listeners = {mListener}
          /\ mListener.query = query /\ mListener.id = mEffects
          /\ mReturned = matchMedia(mediaEnv, query)
    /\ mPhase = "unmounted" => listeners = {}
    /\ \A l \in listeners : matches = matchMedia(mediaEnv, l.query)

\* the query changed once, and a change event for the new query was then
\* delivered to the listener of the second effect, turning the flag on
C19_Witness ==
    /\ mPhase = "idle" /\ mEffects = 2
    /\ listeners = {mListener} /\ mListener.id = 2
    /\ mLast = [query |-> query, delivered |-> TRUE, effect |-> 2]
    /\ mReturned /\ matchMedia(mediaEnv, query)

\* C20: every request that settles sets loading to false and writes its
\* result into data or error, whether or not another request is still in
\* flight and whether or not loading was already false: loading = false says
\* nothing about requests in flight.
C20_SettleIgnoresInFlight ==
    [][fLast' # fLast =>
         /\ loading' = FALSE
         /\ IF fLast'.ok THEN data' = fLast'.val ELSE error' = fLast'.val]_vars

\* two requests overlapped: the first to settle turned loading off while
\* the other was pending, and the other has now written its result with
\* loading already false
C20_Witness ==
    /\ fLast.id # 0 /\ ~fLast.wasLoading
    /\ Cardinality(fSettled) = 2 /\ reqSeq = 2 /\ requests = {}
    /\ loading = FALSE
    /\ IF fLast.ok THEN data = fLast.val ELSE error = fLast.val

====
